---- MODULE Spec2Model ----
(***************************************************************************)
(* A model of the stm32-sdmmc driver (src/src/stm32l4x6.rs, src/src/lib.rs) *)
(* as a state machine.  The Device struct and the SDMMC1 / DMA2 channel 4   *)
(* registers it owns are the state; every method of the CardHost trait is   *)
(* one atomic action.  The controller and the card are the environment:     *)
(* the way each command completes is drawn from a bounded set of outcomes.  *)
(***************************************************************************)
EXTENDS Integers, Sequences, FiniteSets, TLC

VARIABLES
    state,          \* Device.state: [tag, v2]
    rca,            \* Device.rca
    csd,            \* Device.csd: [tag, words]
    cid,            \* Device.cid
    card_version,   \* Device.card_version
    config,         \* Device.config
    sdmmc,          \* the SDMMC1 register block (and its data path state machine)
    dma,            \* the DMA2 channel 4 registers
    card,           \* the card in the slot (environment)
    faults,         \* command completions so far that were not the regular one (environment)
    ret,            \* the call just made: operation, state before, result, commands issued
    init_log,       \* the commands of the initialization run in progress
    initialized     \* an initialization run has completed and reset() was not called since

vars ==
    <<state, rca, csd, cid, card_version, config, sdmmc, dma, card, faults, ret, init_log,
      initialized>>

----------------------------------------------------------------------------
(* Bounds of the model *)

\* not-ready ACMD41 answers a card gives in one initialization run
MaxAcmd41Polls == 1
\* commands of one behaviour that the environment ends in another way than the regular one
MaxFaults == 1

----------------------------------------------------------------------------
(* Program constants *)

BLOCK_SIZE == 512
SEND_IF_COND_PATTERN == 426
STATUS_ERROR_MASK == 1535
SDMMC_FIFO_OFFSET == 1073817728 + 128
INIT_CLOCK_DIVIDER == 128
SD_STATUS_SIZE == 64
DMA_SIZE_LIMIT == 262144

\* enum Command
GO_IDLE_STATE == 0
ALL_SEND_CID == 2
SEND_RELATIVE_ADDR == 3
SELECT_CARD == 7
SEND_IF_COND == 8
SEND_CSD == 9
SEND_STATUS == 13
READ_BLOCK == 17
SET_BLOCK_COUNT == 23
WRITE_MULTIPLE_BLOCK == 25
ERASE_WR_BLK_START == 32
ERASE_WR_BLK_END == 33
ERASE == 38
APP_COMMAND == 55

\* enum AppCommand
SET_BUS_WIDTH == 6
SD_STATUS == 13
SD_SEND_OP_COND == 41

Pow2(n) == 2 ^ n
Bit(x, n) == (x \div Pow2(n)) % 2
Shr(x, n) == x \div Pow2(n)

\* A u32 that travels between driver and card (command arguments, response words,
\* rca, cid, csd) is held as its two 16-bit halves <<high, low>>, so that all 32
\* bits are kept; W(n) is the word of a number below 2^31.
HALF == 65536
W(n) == <<n \div HALF, n % HALF>>
Hi(w) == w[1]
Lo(w) == w[2]
ZERO4 == <<W(0), W(0), W(0), W(0)>>

----------------------------------------------------------------------------
(* Results: Result<T, Error> and nb::Result<T, Error> *)

Ok(v) == [k |-> "Ok", v |-> v, e |-> "-"]
Err(e) == [k |-> "Err", v |-> <<>>, e |-> e]
WouldBlock == [k |-> "WouldBlock", v |-> <<>>, e |-> "-"]
\* the environment has not yet said how the pending hardware step ends
Starved == "Starved"

R(d, res) == [d |-> d, res |-> res]

----------------------------------------------------------------------------
(* The session states *)

St(tag) == [tag |-> tag, v2 |-> FALSE]
Init1(v2) == [tag |-> "Init1", v2 |-> v2]
OpTags == {"Reading", "Writing", "Erasing"}

----------------------------------------------------------------------------
(* The controller's status register.  sta is the set of flags that are set; *)
(* FlagBit gives each flag's bit, which is what a write to icr selects.     *)

CmdFlags == {"ccrcfail", "ctimeout", "cmdrend", "cmdsent"}
DataFlags == {"dcrcfail", "dtimeout", "txunderr", "rxoverr", "dataend", "dbckend"}
ActFlags == {"cmdact", "txact", "rxact"}

FlagBit(f) ==
    CASE f = "ccrcfail" -> 0
      [] f = "dcrcfail" -> 1
      [] f = "ctimeout" -> 2
      [] f = "dtimeout" -> 3
      [] f = "txunderr" -> 4
      [] f = "rxoverr" -> 5
      [] f = "cmdrend" -> 6
      [] f = "cmdsent" -> 7
      [] f = "dataend" -> 8
      [] f = "dbckend" -> 10
      [] f = "cmdact" -> 11
      [] f = "txact" -> 12
      [] f = "rxact" -> 13

\* sdmmc.icr.write(bits): clears the static flags the written bits select
IcrWrite(sta, bits) ==
    {f \in sta : f \in ActFlags \/ Bit(bits, FlagBit(f)) = 0}

----------------------------------------------------------------------------
(* Reset values of the peripherals (what the RCC reset in reset() leaves) *)

ClkcrReset ==
    [negedge |-> FALSE, pwrsav |-> FALSE, clken |-> FALSE, bypass |-> FALSE,
     clkdiv |-> 0, widbus |-> 0]

Ccr4Reset == [dir |-> FALSE, minc |-> FALSE, pinc |-> FALSE, msize |-> 0, psize |-> 0,
              en |-> FALSE]

DctrlReset == [dten |-> FALSE, dtdir |-> FALSE, dmaen |-> FALSE, dblocksize |-> 0]

SdmmcReset ==
    [clkcr |-> ClkcrReset, power |-> 0, dtimer |-> 0, sta |-> {},
     dlen |-> 0, dctrl |-> DctrlReset, dpsm |-> "idle"]

DmaReset ==
    [cselr |-> 0, cmar4 |-> 0, cpar4 |-> 0, cndtr4 |-> 0, ccr4 |-> Ccr4Reset]

----------------------------------------------------------------------------
(* The environment: the card in the slot and the ways a command may end.   *)

\* a high-capacity card of 64 GB (C_SIZE = 0x1ec8f), a version-1 card and a
\* version-2 standard-capacity card
\* (latency: the polls for which the command path stays active with this card)
CardA == [v2 |-> TRUE, ccs |-> TRUE, latency |-> 0,
          cid |-> <<W(11), W(12), W(13), W(14)>>, rca |-> <<4660, 256>>,
          csd |-> <<<<16398, 50>>, <<23385, 1>>, <<60559, 32639>>, <<2624, 16384>>>>]
CardB == [v2 |-> FALSE, ccs |-> FALSE, latency |-> 1,
          cid |-> <<W(21), W(22), W(23), W(24)>>, rca |-> <<43690, 2304>>,
          csd |-> <<<<39, 50>>, <<12890, 33791>>, <<46591, 65535>>, <<32768, 0>>>>]
CardC == [v2 |-> TRUE, ccs |-> FALSE, latency |-> 1,
          cid |-> <<W(31), W(32), W(33), W(34)>>, rca |-> <<43690, 2304>>,
          csd |-> <<<<39, 50>>, <<12890, 33791>>, <<46591, 65535>>, <<32768, 0>>>>]
Cards == {CardA, CardB, CardC}

\* status flags the controller may raise when a command ends
CmdStatuses == {{"ccrcfail"}, {"ctimeout"}, {"cmdrend"}, {"cmdsent"}}

\* status flags the controller may raise when a data phase ends
DataStatuses ==
    {{"dataend", "dbckend"}, {"dataend"}, {"dcrcfail", "dtimeout"}, {"dtimeout", "rxoverr"},
     {"rxoverr", "txunderr"}, {"txunderr", "dataend", "dbckend"}}

\* R1 card status words: transfer state and ready for data; programming and not ready
R1_READY == W(2304)
R1_BUSY == W(3584)
\* a check pattern other than the one sent
WRONG_PATTERN == W(341)
\* the command index register after a response that carries no command index
NO_INDEX == 63
\* OCR words: the voltage window alone (not powered up), with the power-up bit
\* (bit 31), and with the card capacity bit (bit 30) too
OCR_BUSY == <<255, 32768>>
OCR_READY == <<32768 + 255, 32768>>
OCR_READY_CCS == <<32768 + 16384 + 255, 32768>>

IsAcmd41(e) == e.app /\ e.cmd = SD_SEND_OP_COND

\* what the card answers to the command of log entry e; alt selects the other answer
\* of the commands that have two (wrong pattern, not powered up, not ready for data)
CardResp(c, e, alt) ==
    CASE ~e.app /\ e.cmd = SEND_IF_COND ->
            <<IF alt THEN WRONG_PATTERN ELSE <<0, Lo(e.arg) % 4096>>, W(0), W(0), W(0)>>
      [] IsAcmd41(e) ->
            <<IF alt THEN OCR_BUSY
              ELSE IF c.ccs /\ Bit(Hi(e.arg), 14) = 1 THEN OCR_READY_CCS ELSE OCR_READY,
              W(0), W(0), W(0)>>
      [] ~e.app /\ e.cmd = ALL_SEND_CID -> c.cid
      [] ~e.app /\ e.cmd = SEND_CSD -> c.csd
      [] ~e.app /\ e.cmd = SEND_RELATIVE_ADDR -> <<c.rca, W(0), W(0), W(0)>>
      [] ~e.app /\ e.cmd = SEND_STATUS ->
            <<IF alt THEN R1_BUSY ELSE R1_READY, W(0), W(0), W(0)>>
      [] OTHER -> <<R1_READY, W(0), W(0), W(0)>>

Outcome(kind, st, echo, alt, fault) ==
    [kind |-> kind, st |-> st, echo |-> echo, alt |-> alt, fault |-> fault]

\* the regular end of the command of log entry e: a version-1 card stays silent on
\* SEND_IF_COND, the answer to ACMD41 carries no CRC and so fails the CRC check
RegularStatus(c, e) ==
    IF e.waitresp = 0 THEN {"cmdsent"}
    ELSE IF ~e.app /\ e.cmd = SEND_IF_COND /\ ~c.v2 THEN {"ctimeout"}
    ELSE IF IsAcmd41(e) THEN {"ccrcfail"}
    ELSE {"cmdrend"}

\* the ways the command of log entry e may end: the regular one, the other answer
\* of a command that has two, and (may_fail) any other status, a response that
\* does not carry the command's index, a wrong check pattern
CmdChoices(c, e, busy_ok, may_fail) ==
    LET reg == RegularStatus(c, e)
        answers == reg # {"ctimeout"} /\ e.waitresp # 0
        two == (IsAcmd41(e) /\ busy_ok) \/ (~e.app /\ e.cmd = SEND_STATUS)
    IN  {Outcome("cmd", reg, TRUE, FALSE, FALSE)}
        \cup (IF two THEN {Outcome("cmd", reg, TRUE, TRUE, FALSE)} ELSE {})
        \cup (IF ~may_fail THEN {}
              ELSE {Outcome("cmd", s, TRUE, FALSE, TRUE) : s \in CmdStatuses \ {reg}}
                   \cup (IF answers /\ e.waitresp = 1 /\ ~IsAcmd41(e)
                         THEN {Outcome("cmd", reg, FALSE, FALSE, TRUE)} ELSE {})
                   \cup (IF answers /\ ~e.app /\ e.cmd = SEND_IF_COND
                         THEN {Outcome("cmd", reg, TRUE, TRUE, TRUE)} ELSE {})
                   \cup (IF IsAcmd41(e) /\ busy_ok
                         THEN {Outcome("cmd", {"cmdrend"}, TRUE, TRUE, TRUE)} ELSE {}))

\* the ways the data phase awaited inside read_sd_status may stand at the first poll
DataChoices ==
    {Outcome("armed", {}, TRUE, FALSE, FALSE)}
    \cup {Outcome("done", s, TRUE, FALSE, FALSE) : s \in DataStatuses}

----------------------------------------------------------------------------
(* The device during a call: the fields of Device, the registers, and the  *)
(* bookkeeping of the call (the outcomes still to come, the commands       *)
(* issued, the polls spent waiting for a flag).                            *)

LastCmd(d) == d.log[Len(d.log)]

\* sdmmc.arg.write(arg); sdmmc.cmd.write(cmdindex, waitresp, cpsmen): the command
\* path state machine starts and the controller raises cmdact.  The two registers
\* are only ever written; what was written is kept as the last entry of the log,
\* with the status, the response word and the command index the command ends with
\* and with the DMA channel, the data control register and the clock control
\* register as they are at the write.
WriteCmd(d, idx, waitresp, arg, app) ==
    [d EXCEPT !.overlap = @ \/ "cmdact" \in d.sdmmc.sta,
              !.sdmmc.sta = @ \cup {"cmdact"},
              !.wait = d.card.latency,
              !.log = Append(@, [cmd |-> idx, app |-> app, arg |-> arg, waitresp |-> waitresp,
                                 st |-> {"cmdact"}, resp |-> W(0), index |-> -1,
                                 dma |-> d.dma, dctrl |-> d.sdmmc.dctrl,
                                 clkcr |-> d.sdmmc.clkcr])]

\* the controller between two polls of a command in flight: it stays active for
\* `latency` polls, then ends the way the environment says
HwCommandStep(d) ==
    IF d.wait > 0 THEN [d EXCEPT !.wait = @ - 1, !.spins = @ + 1]
    ELSE IF d.tape = <<>> THEN [d EXCEPT !.starved = TRUE, !.need = "cmd"]
    ELSE LET o == Head(d.tape)
             e == LastCmd(d)
             answered == e.waitresp # 0 /\ o.st \cap {"cmdrend", "ccrcfail"} # {}
             noindex == e.waitresp = 3 \/ IsAcmd41(e) \/ ~o.echo
         IN  [d EXCEPT !.tape = Tail(@),
                       !.faults = @ + (IF o.fault THEN 1 ELSE 0),
                       !.sdmmc.sta = (@ \ {"cmdact"}) \cup o.st,
                       !.resp = IF answered THEN CardResp(d.card, e, o.alt) ELSE @,
                       !.respcmd = IF ~answered THEN @
                                         ELSE IF noindex THEN NO_INDEX ELSE e.cmd,
                       !.log[Len(d.log)].st = o.st,
                       !.log[Len(d.log)].resp =
                            IF answered THEN CardResp(d.card, e, o.alt)[1] ELSE @,
                       !.log[Len(d.log)].index =
                            IF ~answered THEN @ ELSE IF noindex THEN NO_INDEX ELSE e.cmd]

----------------------------------------------------------------------------
(* Command/response transport.  A handler is a chain of steps, each taking  *)
(* the result r of the step before it: r.d is the device, r.res the value   *)
(* or error so far.  The `?` of the source is the first line of a step.     *)

\* fn check_command(&mut self, expect_response: bool) -> nb::Result<(), Error>
check_command(d, expect_response) ==
    LET status == d.sdmmc.sta IN
    IF "cmdact" \in status THEN R(d, WouldBlock)
    ELSE LET d1 == [d EXCEPT !.sdmmc.sta = IcrWrite(@, STATUS_ERROR_MASK)] IN
         IF "ccrcfail" \in status THEN R(d1, Err("CRCFail"))
         ELSE IF "ctimeout" \in status THEN R(d1, Err("Timeout"))
         ELSE IF expect_response /\ "cmdrend" \notin status THEN R(d1, Err("UnknownResult"))
         ELSE IF ~expect_response /\ "cmdsent" \notin status THEN R(d1, Err("UnknownResult"))
         ELSE R(d1, Ok(<<>>))

\* a single check_command in place of block!: a command still active is taken
\* for a completed one
block_poll_once(r, h, expect_response) ==
    IF r.res.k = "WouldBlock" THEN R(r.d, Ok(<<>>)) ELSE r

\* block!(self.check_command(expect_response)): poll until it is not WouldBlock
RECURSIVE block_check_command(_, _)
block_poll(r, h, expect_response) ==
    IF r.res.k # "WouldBlock" THEN r
    ELSE IF h.starved THEN R(h, Err(Starved))
    ELSE block_check_command(h, expect_response)

block_check_command(d, expect_response) ==
    block_poll(check_command(d, expect_response), HwCommandStep(d), expect_response)

\* fn card_command_none(&mut self, cmd: Command, arg: u32) -> Result<(), Error>
card_command_none(d, cmd, arg) ==
    block_check_command(WriteCmd(d, cmd, 0, arg, FALSE), FALSE)

\* card_command_short after block!(self.check_command(true))?
short_response(r, cmd) ==
    IF r.res.k # "Ok" THEN r
    ELSE IF r.d.respcmd # cmd THEN R(r.d, Err("UnexpectedResponse"))
    ELSE R(r.d, Ok(r.d.resp[1]))

\* fn card_command_short(&mut self, cmd: Command, arg: u32) -> Result<u32, Error>
card_command_short(d, cmd, arg) ==
    short_response(block_check_command(WriteCmd(d, cmd, 1, arg, FALSE), TRUE), cmd)

\* card_command_long after block!(self.check_command(true))?
long_response(r) ==
    IF r.res.k # "Ok" THEN r ELSE R(r.d, Ok(r.d.resp))

\* fn card_command_long(&mut self, cmd: Command, arg: u32) -> Result<[u32; 4], Error>
card_command_long(d, cmd, arg) ==
    long_response(block_check_command(WriteCmd(d, cmd, 3, arg, FALSE), TRUE))

\* app_command_short after block!(self.check_command(true))?
app_response(r) ==
    IF r.res.k # "Ok" THEN r ELSE R(r.d, Ok(r.d.resp[1]))

\* app_command_short after self.card_command_short(Command::APP_COMMAND, self.rca)?
app_command(r, cmd, arg) ==
    IF r.res.k # "Ok" THEN r
    ELSE app_response(block_check_command(WriteCmd(r.d, cmd, 1, arg, TRUE), TRUE))

\* app_command_short announcing the application command to address 0, the way
\* acmd41 does, instead of to the selected card
app_command_short_unaddressed(d, cmd, arg) ==
    app_command(card_command_short(d, APP_COMMAND, W(0)), cmd, arg)

\* fn app_command_short(&mut self, cmd: AppCommand, arg: u32) -> Result<u32, Error>
app_command_short(d, cmd, arg) ==
    app_command(card_command_short(d, APP_COMMAND, d.rca), cmd, arg)

\* acmd41 passing on every error of the exchange, the CRC failure too
acmd41_response_strict(r) ==
    IF r.res.k # "Ok" THEN r ELSE R(r.d, Ok(r.d.resp[1]))

\* acmd41 after block!(self.check_command(true)):
\* acmd41 does not set crc so we expect crcfail
acmd41_response(r) ==
    IF r.res.k = "Err" /\ r.res.e = "CRCFail" THEN R(r.d, Ok(r.d.resp[1]))
    ELSE IF r.res.k # "Ok" THEN r
    ELSE R(r.d, Ok(r.d.resp[1]))

\* acmd41 after self.card_command_short(Command::APP_COMMAND, 0)?;
\* arg = 0x0010_0000 | (hcs as u32) << 30
acmd41_command(r, hcs) ==
    IF r.res.k # "Ok" THEN r
    ELSE acmd41_response(
            block_check_command(
                WriteCmd(r.d, SD_SEND_OP_COND, 1, <<16 + (IF hcs THEN 16384 ELSE 0), 0>>, TRUE),
                TRUE))

\* fn acmd41(&mut self, hcs: bool) -> Result<u32, Error>
acmd41(d, hcs) ==
    acmd41_command(card_command_short(d, APP_COMMAND, W(0)), hcs)

\* check_operating_conditions after the SEND_IF_COND exchange
check_pattern(r) ==
    IF r.res.k # "Ok" THEN r
    ELSE IF r.res.v # W(SEND_IF_COND_PATTERN)
         THEN R(r.d, Err("OperatingConditionsNotSupported"))
    ELSE R(r.d, Ok(<<>>))

\* fn check_operating_conditions(&mut self) -> Result<(), Error>
check_operating_conditions(d) ==
    check_pattern(card_command_short(d, SEND_IF_COND, W(SEND_IF_COND_PATTERN)))

----------------------------------------------------------------------------
(* Peripheral set-up *)

\* reset without the assignment self.state = Uninitialized
reset_keeping_state(d) ==
    [d EXCEPT !.sdmmc = SdmmcReset, !.dma = DmaReset]

\* fn reset(&mut self): the RCC reset puts both peripherals in their reset state
reset(d) ==
    [d EXCEPT !.state = St("Uninitialized"), !.sdmmc = SdmmcReset, !.dma = DmaReset]

\* pub fn free(mut self) -> (stm32::SDMMC1, stm32::DMA2, Pins): self.reset(), then
\* the peripherals are handed back
free(d) == R(reset(d), Ok(<<>>))

\* fn init_peri(&mut self, clock_divider: u8)
init_peri(d, clock_divider) ==
    LET c0 == [d.sdmmc.clkcr EXCEPT !.negedge = TRUE, !.pwrsav = TRUE, !.clken = FALSE]
        c1 == IF clock_divider < 2 THEN [c0 EXCEPT !.bypass = TRUE]
              ELSE [c0 EXCEPT !.clkdiv = clock_divider - 2]
        c2 == [c1 EXCEPT !.widbus = IF d.config.bus_width = "Bits1" THEN 0 ELSE 1]
    IN  [d EXCEPT !.sdmmc.clkcr = [c2 EXCEPT !.clken = TRUE],
                  !.sdmmc.power = 3,
                  !.sdmmc.dtimer = d.config.data_timeout,
                  !.dma.cselr = 7]

\* check_ready without the Erasing arm of its match: an erase in progress is not
\* taken for an outstanding operation
check_ready_forgets_erase(d) ==
    CASE d.state.tag \in {"Uninitialized", "Init1"} -> R(d, Err("Uninitialized"))
      [] d.state.tag \in {"Ready", "Erasing"} -> R(init_peri(d, d.config.clock_divider), Ok(<<>>))
      [] d.state.tag \in {"Reading", "Writing"} -> R(d, Err("Busy"))

\* fn check_ready(&mut self) -> Result<(), Error>
check_ready(d) ==
    CASE d.state.tag \in {"Uninitialized", "Init1"} -> R(d, Err("Uninitialized"))
      [] d.state.tag = "Ready" -> R(init_peri(d, d.config.clock_divider), Ok(<<>>))
      [] d.state.tag \in OpTags -> R(d, Err("Busy"))

\* usize::is_power_of_two, usize::trailing_zeros (for the lengths below 2^31 that
\* the calls of the model pass)
IsPowerOfTwo(n) == \E k \in 0..30 : n = Pow2(k)
TrailingZeros(n) == CHOOSE k \in 0..32 : (k = 32 /\ n = 0) \/ (k < 32 /\ n % Pow2(k + 1) = Pow2(k))

\* a write of dctrl with dten set starts the data path state machine
ArmData(dpsm) == IF dpsm = "active" THEN "active" ELSE "armed"

\* unsafe fn setup_read(&mut self, dest: &mut [u8]); size = dest.len(), ptr = dest.as_ptr()
setup_read(d, ptr, size) ==
    IF ~(IsPowerOfTwo(size) /\ size % 4 = 0 /\ size < DMA_SIZE_LIMIT)
    THEN [d EXCEPT !.panic = TRUE]
    ELSE [d EXCEPT !.sdmmc.dlen = size,
                   !.dma.cmar4 = ptr,
                   !.dma.cpar4 = SDMMC_FIFO_OFFSET,
                   !.dma.cndtr4 = Shr(size, 2) % 65536,
                   !.dma.ccr4 = [dir |-> FALSE, minc |-> TRUE, pinc |-> FALSE,
                                 msize |-> 2, psize |-> 2, en |-> TRUE],
                   !.sdmmc.dctrl = [dten |-> TRUE, dtdir |-> TRUE, dmaen |-> TRUE,
                                    dblocksize |-> TrailingZeros(size)],
                   !.sdmmc.dpsm = ArmData(@)]

----------------------------------------------------------------------------
(* Decoders (lib.rs) *)

\* CSD::capacity
\* (words[k] of the source is words[k + 1] here; no intermediate value reaches 2^31)
capacity(c) ==
    IF c.tag = "V1"
    THEN LET \* (words[2] >> 30 | (words[1] & 0x3ff) << 2) + 1
             c_size == Shr(Hi(c.words[3]), 14) + (Lo(c.words[2]) % 1024) * 4 + 1
             \* ((words[2] & 0x0003_8000) >> 15) + 2
             c_size_mult == Shr(Lo(c.words[3]), 15) + 2 * (Hi(c.words[3]) % 4) + 2
         IN  c_size * Pow2(c_size_mult)
    ELSE LET \* (words[2] >> 16) + 1
             c_size == Hi(c.words[3]) + 1
         IN  c_size * Pow2(10)

\* ready_for_data reading the bit next to READY_FOR_DATA (bit 9, the lowest bit of
\* CURRENT_STATE)
ready_for_data_bit9(w) == Bit(Lo(w), 9) # 0

\* CardStatus::ready_for_data
ready_for_data(w) == Bit(Lo(w), 8) # 0

----------------------------------------------------------------------------
(* impl CardHost for Device.  The steps of a handler are listed last step   *)
(* first, each under the statement of the source it continues from.         *)

\* fn card_status(&mut self) -> Result<CardStatus, Error>
card_status(d) ==
    card_command_short(init_peri(d, d.config.clock_divider), SEND_STATUS, d.rca)

\* init_card after app_command_short(SET_BUS_WIDTH, ..)?: self.state = Ready; Ok(())
init_card_ready(r) ==
    IF r.res.k # "Ok" THEN r ELSE R([r.d EXCEPT !.state = St("Ready")], Ok(<<>>))

\* init_card after card_command_short(SELECT_CARD, self.rca)?
init_card_bus_width(r) ==
    IF r.res.k # "Ok" THEN r
    ELSE init_card_ready(
            app_command_short(r.d, SET_BUS_WIDTH,
                              IF r.d.config.bus_width = "Bits1" THEN W(0) ELSE W(2)))

\* init_card after card_command_long(SEND_CSD, self.rca)?: self.csd = ..; stby -> tran
init_card_select(r) ==
    IF r.res.k # "Ok" THEN r
    ELSE init_card_bus_width(
            card_command_short(
                [r.d EXCEPT !.csd = [tag |-> IF r.d.card_version = "V2HC" THEN "V2" ELSE "V1",
                                     words |-> r.res.v]],
                SELECT_CARD, r.d.rca))

\* init_card after card_command_short(SEND_RELATIVE_ADDR, 0)?:
\* self.rca = card_rca_status & 0xffff_0000
init_card_csd(r) ==
    IF r.res.k # "Ok" THEN r
    ELSE init_card_select(
            card_command_long([r.d EXCEPT !.rca = <<Hi(r.res.v), 0>>], SEND_CSD,
                              <<Hi(r.res.v), 0>>))

\* init_card after card_command_long(ALL_SEND_CID, 0)?: self.cid = ..; ident -> stby
init_card_rca(r) ==
    IF r.res.k # "Ok" THEN r
    ELSE init_card_csd(card_command_short([r.d EXCEPT !.cid = r.res.v], SEND_RELATIVE_ADDR, W(0)))

\* init_card_version going back to Uninitialized when the card is not ready yet
init_card_version_restarting(r, v2) ==
    IF r.res.k = "Err" /\ r.res.e = "Timeout" /\ ~v2 THEN R(r.d, Err("NoCard"))
    ELSE IF r.res.k = "Ok" /\ Shr(Hi(r.res.v), 15) = 0
         THEN R([r.d EXCEPT !.state = St("Uninitialized")], WouldBlock)
    ELSE IF r.res.k = "Err" THEN R([r.d EXCEPT !.state = St("Uninitialized")], r.res)
    ELSE init_card_rca(
            card_command_long(
                [r.d EXCEPT !.state = St("Uninitialized"),
                            !.card_version = IF ~v2 THEN "V1SC"
                                             ELSE IF Bit(Hi(r.res.v), 14) # 0 THEN "V2HC"
                                             ELSE "V2SC"],
                ALL_SEND_CID, W(0)))

\* init_card, Init1(v2) arm, the match on self.acmd41(v2) and what follows it:
\* self.state = Uninitialized; self.card_version = ..; ready -> ident
init_card_version(r, v2) ==
    IF r.res.k = "Err" /\ r.res.e = "Timeout" /\ ~v2 THEN R(r.d, Err("NoCard"))
    ELSE IF r.res.k = "Ok" /\ Shr(Hi(r.res.v), 15) = 0 THEN R(r.d, WouldBlock)
    ELSE IF r.res.k = "Err" THEN R([r.d EXCEPT !.state = St("Uninitialized")], r.res)
    ELSE init_card_rca(
            card_command_long(
                [r.d EXCEPT !.state = St("Uninitialized"),
                            !.card_version = IF ~v2 THEN "V1SC"
                                             ELSE IF Bit(Hi(r.res.v), 14) # 0 THEN "V2HC"
                                             ELSE "V2SC"],
                ALL_SEND_CID, W(0)))

\* init_card, Init1(v2) arm: self.init_peri(0x80); idle -> ready
init_card_Init1(d) ==
    init_card_version(acmd41(init_peri(d, INIT_CLOCK_DIVIDER), d.state.v2), d.state.v2)

\* init_card taking every error of check_operating_conditions for an error, the
\* timeout too
init_card_conditions_strict(r) ==
    IF r.res.k = "Err" THEN r
    ELSE init_card_Init1([r.d EXCEPT !.state = Init1(r.res.k = "Ok")])

\* init_card after self.check_operating_conditions(): determine card version,
\* self.state = Init1(v2), recurse once to start the next part
init_card_conditions(r) ==
    IF r.res.k = "Err" /\ r.res.e # "Timeout" THEN r
    ELSE init_card_Init1([r.d EXCEPT !.state = Init1(r.res.k = "Ok")])

\* init_card after card_command_none(GO_IDLE_STATE, 0)?
init_card_idle(r) ==
    IF r.res.k # "Ok" THEN r ELSE init_card_conditions(check_operating_conditions(r.d))

\* init_card beginning at SEND_IF_COND, without card_command_none(GO_IDLE_STATE, 0)
init_card_skipping_idle(d) ==
    CASE d.state.tag \in OpTags -> R(reset(d), WouldBlock)
      [] d.state.tag \in {"Uninitialized", "Ready"} ->
            init_card_conditions(check_operating_conditions(init_peri(d, INIT_CLOCK_DIVIDER)))
      [] d.state.tag = "Init1" -> init_card_Init1(d)

\* fn init_card(&mut self) -> nb::Result<(), Error>
init_card(d) ==
    CASE d.state.tag \in OpTags -> R(reset(d), WouldBlock)
      [] d.state.tag \in {"Uninitialized", "Ready"} ->
            init_card_idle(
                card_command_none(init_peri(d, INIT_CLOCK_DIVIDER), GO_IDLE_STATE, W(0)))
      [] d.state.tag = "Init1" -> init_card_Init1(d)

\* card_id without the State::Init1(_) arm of its match
card_id_without_init1(d) ==
    IF d.state.tag = "Uninitialized" THEN R(d, Err("Uninitialized"))
    ELSE R(d, Ok(d.cid))

\* fn card_id(&mut self) -> Result<CID, Error>
card_id(d) ==
    IF d.state.tag \in {"Uninitialized", "Init1"} THEN R(d, Err("Uninitialized"))
    ELSE R(d, Ok(d.cid))

\* fn card_size(&mut self) -> Result<BlockCount, Error>
card_size(d) ==
    IF d.state.tag \in {"Uninitialized", "Init1"} THEN R(d, Err("Uninitialized"))
    ELSE R(d, Ok(capacity(d.csd)))

\* `?;` and then self.card_command_short(cmd, arg)
then_short(r, cmd, arg) ==
    IF r.res.k # "Ok" THEN r ELSE card_command_short(r.d, cmd, arg)

\* erase, erase_card after card_command_short(ERASE, ..)?: self.state = Erasing; Ok(())
erase_started(r) ==
    IF r.res.k # "Ok" THEN r ELSE R([r.d EXCEPT !.state = St("Erasing")], Ok(<<>>))

\* erase_card after let card_size = self.card_size()?
\* (2 means Full User area Logical Erase)
erase_card_end(r) ==
    IF r.res.k # "Ok" THEN r
    ELSE erase_started(
            then_short(card_command_short(r.d, ERASE_WR_BLK_END, W(r.res.v - 1)), ERASE, W(2)))

\* erase_card after card_command_short(ERASE_WR_BLK_START, 0)?
erase_card_size(r) ==
    IF r.res.k # "Ok" THEN r ELSE erase_card_end(card_size(r.d))

\* fn erase_card(&mut self) -> Result<(), Error>
erase_card(d) ==
    erase_card_size(then_short(check_ready(d), ERASE_WR_BLK_START, W(0)))

\* fn erase(&mut self, start: BlockIndex, end: BlockIndex) -> Result<(), Error>
erase(d, start, end) ==
    erase_started(
        then_short(
            then_short(then_short(check_ready(d), ERASE_WR_BLK_START, W(start)),
                       ERASE_WR_BLK_END, W(end)),
            ERASE, W(0)))

\* read_block, the match on card_command_short(READ_BLOCK, address)
read_block_started(r) ==
    IF r.res.k = "Ok" THEN R([r.d EXCEPT !.state = St("Reading")], Ok(<<>>))
    \* TODO: Disable DMA.
    ELSE r

\* read_block after self.setup_read(block)
read_block_command(d, address) ==
    IF d.panic THEN R(d, Err("panic"))
    ELSE read_block_started(card_command_short(d, READ_BLOCK, W(address)))

\* read_block after self.check_ready()?
read_block_setup(r, block, address) ==
    IF r.res.k # "Ok" THEN r
    ELSE read_block_command(setup_read(r.d, block, BLOCK_SIZE), address)

\* unsafe fn read_block(&mut self, block: &mut Block, address: BlockIndex)
read_block(d, block, address) ==
    read_block_setup(check_ready(d), block, address)

\* u16 arithmetic of `blocks.len() as u16 * 0x80`
U16 == 65536
MulU16(a, b) == ((a % U16) * b) % U16
\* the product does not fit in u16: a build with overflow checks panics at the
\* multiplication, a build without them wraps
OverflowsU16(a, b) == (a % U16) * b >= U16

\* write_blocks after card_command_short(WRITE_MULTIPLE_BLOCK, address)?:
\* self.state = Writing; e. set the data control register
write_blocks_started(r) ==
    IF r.res.k # "Ok" THEN r
    ELSE R([r.d EXCEPT !.state = St("Writing"),
                       !.sdmmc.dctrl = [dten |-> TRUE, dtdir |-> FALSE, dmaen |-> TRUE,
                                        dblocksize |-> 9],
                       !.sdmmc.dpsm = ArmData(@)],
           Ok(<<>>))

\* write_blocks with step e (the data control register) done before steps c, d
\* (the write command)
write_blocks_dma_arming_first(r, ptr, len, address, checks) ==
    IF r.res.k # "Ok" THEN r
    ELSE IF checks /\ OverflowsU16(len, 128)
    THEN R([r.d EXCEPT !.sdmmc.dlen = len * BLOCK_SIZE,
                       !.dma.cmar4 = ptr,
                       !.dma.cpar4 = SDMMC_FIFO_OFFSET],
           Err("panic"))
    ELSE write_blocks_started(
            card_command_short(
                [r.d EXCEPT !.sdmmc.dlen = len * BLOCK_SIZE,
                            !.dma.cmar4 = ptr,
                            !.dma.cpar4 = SDMMC_FIFO_OFFSET,
                            !.dma.cndtr4 = MulU16(len, 128),
                            !.dma.ccr4 = [dir |-> TRUE, minc |-> TRUE, pinc |-> FALSE,
                                          msize |-> 2, psize |-> 2, en |-> TRUE],
                            !.sdmmc.dctrl = [dten |-> TRUE, dtdir |-> FALSE, dmaen |-> TRUE,
                                             dblocksize |-> 9],
                            !.sdmmc.dpsm = ArmData(@)],
                WRITE_MULTIPLE_BLOCK, W(address)))

\* write_blocks after card_command_short(SET_BLOCK_COUNT, blocks.len() as u32)?:
\* a. set the data length register; b. set the dma channel; c, d. the command
write_blocks_dma(r, ptr, len, address, checks) ==
    IF r.res.k # "Ok" THEN r
    ELSE IF checks /\ OverflowsU16(len, 128)
    THEN R([r.d EXCEPT !.sdmmc.dlen = len * BLOCK_SIZE,
                       !.dma.cmar4 = ptr,
                       !.dma.cpar4 = SDMMC_FIFO_OFFSET],
           Err("panic"))
    ELSE write_blocks_started(
            card_command_short(
                [r.d EXCEPT !.sdmmc.dlen = len * BLOCK_SIZE,
                            !.dma.cmar4 = ptr,
                            !.dma.cpar4 = SDMMC_FIFO_OFFSET,
                            !.dma.cndtr4 = MulU16(len, 128),
                            !.dma.ccr4 = [dir |-> TRUE, minc |-> TRUE, pinc |-> FALSE,
                                          msize |-> 2, psize |-> 2, en |-> TRUE]],
                WRITE_MULTIPLE_BLOCK, W(address)))

\* unsafe fn write_blocks(&mut self, blocks: &[Block], address: BlockIndex);
\* len = blocks.len(), ptr = the address of blocks, checks = the build has
\* overflow checks
write_blocks(d, ptr, len, address, checks) ==
    write_blocks_dma(then_short(check_ready(d), SET_BLOCK_COUNT, W(len)), ptr, len, address,
                     checks)

\* unsafe fn write_block(&mut self, block: &Block, address: BlockIndex)
write_block(d, block, address) == write_blocks(d, block, 1, address, FALSE)

\* result, State::Erasing arm, after self.card_status()?
result_erasing(r) ==
    IF r.res.k # "Ok" THEN r
    ELSE IF ready_for_data(r.res.v) THEN R([r.d EXCEPT !.state = St("Ready")], Ok(<<>>))
    ELSE R(r.d, WouldBlock)

\* result_transfer looking at the send underrun before the receive overrun
result_transfer_underrun_first(d, status) ==
    IF "dcrcfail" \in status THEN R(d, Err("CRCFail"))
    ELSE IF "dtimeout" \in status THEN R(d, Err("Timeout"))
    ELSE IF "txunderr" \in status THEN R(d, Err("SendUnderrun"))
    ELSE IF "rxoverr" \in status THEN R(d, Err("ReceiveOverrun"))
    ELSE IF "dataend" \notin status \/ "dbckend" \notin status THEN R(d, Err("UnknownResult"))
    ELSE R(d, Ok(<<>>))

\* result after the match on self.state: disable the channel, acknowledge the
\* flags, self.state = Ready, and classify the status read at entry
result_transfer(d, status) ==
    IF "dcrcfail" \in status THEN R(d, Err("CRCFail"))
    ELSE IF "dtimeout" \in status THEN R(d, Err("Timeout"))
    ELSE IF "rxoverr" \in status THEN R(d, Err("ReceiveOverrun"))
    ELSE IF "txunderr" \in status THEN R(d, Err("SendUnderrun"))
    ELSE IF "dataend" \notin status \/ "dbckend" \notin status THEN R(d, Err("UnknownResult"))
    ELSE R(d, Ok(<<>>))

\* result disabling the DMA channel before the match on self.state, so that a
\* pending poll disables it too
result_disabling_first(d) ==
    CASE d.state.tag \in {"Uninitialized", "Init1"} -> R(d, Err("Uninitialized"))
      [] d.state.tag = "Ready" -> R(d, Err("NoOperation"))
      [] d.state.tag = "Reading" /\ "rxact" \in d.sdmmc.sta ->
            R([d EXCEPT !.dma.ccr4.en = FALSE], WouldBlock)
      [] d.state.tag = "Writing" /\ "txact" \in d.sdmmc.sta ->
            R([d EXCEPT !.dma.ccr4.en = FALSE], WouldBlock)
      [] d.state.tag = "Erasing" -> result_erasing(card_status(d))
      [] OTHER ->
            result_transfer([d EXCEPT !.dma.ccr4.en = FALSE,
                                      !.sdmmc.sta = IcrWrite(@, STATUS_ERROR_MASK),
                                      !.state = St("Ready")],
                            d.sdmmc.sta)

\* result with Init1 in the arm of Ready instead of the arm of Uninitialized
result_init1_with_ready(d) ==
    CASE d.state.tag = "Uninitialized" -> R(d, Err("Uninitialized"))
      [] d.state.tag \in {"Init1", "Ready"} -> R(d, Err("NoOperation"))
      [] d.state.tag = "Reading" /\ "rxact" \in d.sdmmc.sta -> R(d, WouldBlock)
      [] d.state.tag = "Writing" /\ "txact" \in d.sdmmc.sta -> R(d, WouldBlock)
      [] d.state.tag = "Erasing" -> result_erasing(card_status(d))
      [] OTHER ->
            result_transfer([d EXCEPT !.dma.ccr4.en = FALSE,
                                      !.sdmmc.sta = IcrWrite(@, STATUS_ERROR_MASK),
                                      !.state = St("Ready")],
                            d.sdmmc.sta)

\* result taking a transfer for outstanding until the controller reports the end
\* of the data, whatever the activity flags say
result_awaiting_data_end(d) ==
    CASE d.state.tag \in {"Uninitialized", "Init1"} -> R(d, Err("Uninitialized"))
      [] d.state.tag = "Ready" -> R(d, Err("NoOperation"))
      [] d.state.tag \in {"Reading", "Writing"} /\ "dataend" \notin d.sdmmc.sta ->
            R(d, WouldBlock)
      [] d.state.tag = "Erasing" -> result_erasing(card_status(d))
      [] OTHER ->
            result_transfer([d EXCEPT !.dma.ccr4.en = FALSE,
                                      !.sdmmc.sta = IcrWrite(@, STATUS_ERROR_MASK),
                                      !.state = St("Ready")],
                            d.sdmmc.sta)

\* fn result(&mut self) -> nb::Result<(), Error>
result(d) ==
    CASE d.state.tag \in {"Uninitialized", "Init1"} -> R(d, Err("Uninitialized"))
      [] d.state.tag = "Ready" -> R(d, Err("NoOperation"))
      [] d.state.tag = "Reading" /\ "rxact" \in d.sdmmc.sta -> R(d, WouldBlock)
      [] d.state.tag = "Writing" /\ "txact" \in d.sdmmc.sta -> R(d, WouldBlock)
      [] d.state.tag = "Erasing" -> result_erasing(card_status(d))
      [] OTHER ->
            result_transfer([d EXCEPT !.dma.ccr4.en = FALSE,
                                      !.sdmmc.sta = IcrWrite(@, STATUS_ERROR_MASK),
                                      !.state = St("Ready")],
                            d.sdmmc.sta)

\* the data path between the polls of block!(self.result()): the environment says
\* whether the data phase has not begun or how it ended; while it runs the
\* controller keeps the activity flag set for card.latency polls
HwDataInCall(d) ==
    IF d.tape = <<>> THEN [d EXCEPT !.starved = TRUE, !.need = "data"]
    ELSE IF Head(d.tape).kind = "armed" THEN [d EXCEPT !.tape = Tail(@)]
    ELSE [d EXCEPT !.tape = Tail(@),
                   !.spins = @ + d.card.latency,
                   !.sdmmc.sta = (@ \ {"rxact", "txact"}) \cup Head(d.tape).st,
                   !.sdmmc.dpsm = "idle"]

\* block!(self.result()) once the data path has moved
block_result_poll(h) ==
    IF h.starved THEN R(h, Err(Starved)) ELSE result(h)

\* block!(self.result())
block_result(d) == block_result_poll(HwDataInCall(d))

\* the buffer of read_sd_status is a local of the call
STACK_BUFFER == 536936448

\* read_sd_status after block!(self.result())?
read_sd_status_done(r) ==
    IF r.res.k # "Ok" THEN r ELSE R(r.d, Ok(<<>>))

\* read_sd_status after app_command_short(SD_STATUS, self.rca)?: self.state = Reading
read_sd_status_wait(r) ==
    IF r.res.k # "Ok" THEN r
    ELSE read_sd_status_done(block_result([r.d EXCEPT !.state = St("Reading")]))

\* read_sd_status after self.setup_read(&mut result.0)
read_sd_status_command(d) ==
    IF d.panic THEN R(d, Err("panic"))
    ELSE read_sd_status_wait(app_command_short(d, SD_STATUS, d.rca))

\* read_sd_status after self.check_ready()?
read_sd_status_setup(r) ==
    IF r.res.k # "Ok" THEN r
    ELSE read_sd_status_command(setup_read(r.d, STACK_BUFFER, SD_STATUS_SIZE))

\* fn read_sd_status(&mut self) -> Result<SDStatus, Error>
read_sd_status(d) == read_sd_status_setup(check_ready(d))

----------------------------------------------------------------------------
(* Calls: a call runs its handler against the outcomes the environment     *)
(* supplies, one for each hardware step the handler waits for.             *)

\* inputs of the calls
Buffers == {536870912}
Addrs == {100}
EraseRanges == {<<0, 100>>}
BlockCounts == {2, 3, 512}
Configs == {[bus_width |-> "Bits1", clock_divider |-> 1, data_timeout |-> 16777216],
            [bus_width |-> "Bits4", clock_divider |-> 4, data_timeout |-> 16777216]}

Op(name, args) == [name |-> name, args |-> args]

\* what the build does where the arithmetic of a call overflows: either outcome
\* where the word count of len blocks overflows, nothing to choose elsewhere
OverflowChecks(len) == IF OverflowsU16(len, 128) THEN BOOLEAN ELSE {FALSE}
OpBuilt(name, args, checks) == [name |-> name, args |-> args, checks |-> checks]

\* the value of a call as the caller receives it (a number as a one-element tuple)
Boxed(r) == IF r.res.k = "Ok" THEN R(r.d, Ok(<<r.res.v>>)) ELSE r

Call(op, d) ==
    CASE op.name = "init_card" -> init_card(d)
      [] op.name = "card_id" -> card_id(d)
      [] op.name = "card_size" -> Boxed(card_size(d))
      [] op.name = "erase_card" -> erase_card(d)
      [] op.name = "read_sd_status" -> read_sd_status(d)
      [] op.name = "erase" -> erase(d, op.args[1], op.args[2])
      [] op.name = "read_block" -> read_block(d, op.args[1], op.args[2])
      [] op.name = "write_blocks" -> write_blocks(d, op.args[1], op.args[2], op.args[3], op.checks)
      [] op.name = "write_block" -> write_block(d, op.args[1], op.args[2])
      [] op.name = "result" -> result(d)

\* the outcomes the environment may give to the hardware step d waits for
EnvChoices(d) ==
    IF d.need = "data"
    THEN {o \in DataChoices : o.kind = "armed" => d.sdmmc.sta \cap {"rxact", "txact"} = {}}
    ELSE CmdChoices(d.card, LastCmd(d), d.busy_ok, d.faults < MaxFaults)

\* every way the call can go: the handler is run with the outcomes chosen so far,
\* and where it waits for one more, every choice of that one is followed
RECURSIVE Runs(_, _, _)
Continue(op, d, tape, r) ==
    IF r.d.starved THEN UNION {Runs(op, d, Append(tape, o)) : o \in EnvChoices(r.d)}
    ELSE {tape}

Runs(op, d, tape) == Continue(op, d, tape, Call(op, [d EXCEPT !.tape = tape]))

\* an initialization run: the state it began in, its commands so far, and the
\* number of its calls that returned pending
EmptyLog == [start |-> "none", cmds |-> <<>>, polls |-> 0]
NoCall == [op |-> "none", args |-> <<>>, pre |-> St("Uninitialized"), res |-> Ok(<<>>),
           cmds |-> <<>>, spins |-> 0, overlap |-> FALSE, run |-> EmptyLog]

\* the device as a call finds it; the response registers are latched anew by every
\* response and read only right after one, so they are not carried between calls
Dev ==
    [state |-> state, rca |-> rca, csd |-> csd, cid |-> cid, card_version |-> card_version,
     config |-> config, sdmmc |-> sdmmc, dma |-> dma, card |-> card, faults |-> faults,
     resp |-> ZERO4, respcmd |-> 0,
     tape |-> <<>>, starved |-> FALSE, need |-> "cmd", log |-> <<>>, spins |-> 0,
     wait |-> 0, overlap |-> FALSE, panic |-> FALSE,
     busy_ok |-> init_log.polls < MaxAcmd41Polls]

\* the run an init_card call belongs to: the run in progress if the call was made
\* in Init1 after a pending call, else a run of its own
RunOf(op, r) ==
    IF op.name # "init_card" \/ state.tag \in OpTags THEN EmptyLog
    ELSE LET polled == IF r.res.k = "WouldBlock" THEN 1 ELSE 0 IN
         IF state.tag = "Init1" /\ init_log.start # "none"
         THEN [init_log EXCEPT !.cmds = @ \o r.d.log, !.polls = @ + polled]
         ELSE [start |-> state.tag, cmds |-> r.d.log, polls |-> polled]

\* the run is in progress after a call that returned pending in Init1
NextInitLog(op, r) ==
    IF op.name = "init_card"
    THEN IF r.res.k = "WouldBlock" /\ r.d.state.tag = "Init1" THEN RunOf(op, r) ELSE EmptyLog
    ELSE IF state.tag = "Init1" /\ r.d.state.tag = "Init1" THEN init_log ELSE EmptyLog

\* init_card is the one call that completes an initialization (Ok) or calls
\* self.reset() (in an operation state)
NextInitialized(op, r) ==
    IF op.name # "init_card" THEN initialized
    ELSE IF r.res.k = "Ok" THEN TRUE
    ELSE IF state.tag \in OpTags THEN FALSE
    ELSE initialized

Commit(op, r) ==
    /\ state' = r.d.state
    /\ rca' = r.d.rca
    /\ csd' = r.d.csd
    /\ cid' = r.d.cid
    /\ card_version' = r.d.card_version
    /\ sdmmc' = r.d.sdmmc
    /\ dma' = r.d.dma
    /\ faults' = r.d.faults
    /\ ret' = [op |-> op.name, args |-> op.args, pre |-> state, res |-> r.res,
               cmds |-> r.d.log, spins |-> r.d.spins, overlap |-> r.d.overlap,
               run |-> RunOf(op, r)]
    /\ init_log' = NextInitLog(op, r)
    /\ initialized' = NextInitialized(op, r)
    /\ UNCHANGED <<config, card>>

\* no call is being reported: the caller is free to make the next one
Idle == ret.op = "none"

\* a call of op by an idle caller, run to its return
Do(op) ==
    \E tape \in Runs(op, Dev, <<>>) : Commit(op, Call(op, [Dev EXCEPT !.tape = tape]))

----------------------------------------------------------------------------
(* The state machine *)

Init ==
    /\ state = St("Uninitialized")
    /\ rca = W(0)
    /\ csd = [tag |-> "V1", words |-> ZERO4]
    /\ cid = ZERO4
    /\ card_version = "V1SC"
    /\ config \in Configs
    /\ sdmmc = SdmmcReset
    /\ dma = DmaReset
    /\ card \in Cards
    /\ faults = 0
    /\ ret = NoCall
    /\ init_log = EmptyLog
    /\ initialized = FALSE

InitCard == Idle /\ Do(Op("init_card", <<>>))
CardId == Idle /\ Do(Op("card_id", <<>>))
CardSize == Idle /\ Do(Op("card_size", <<>>))
EraseCard == Idle /\ Do(Op("erase_card", <<>>))
ReadSdStatus == Idle /\ Do(Op("read_sd_status", <<>>))
Erase == \E range \in EraseRanges : Idle /\ Do(Op("erase", range))
ReadBlock ==
    \E block \in Buffers, address \in Addrs : Idle /\ Do(Op("read_block", <<block, address>>))
WriteBlocks ==
    \E blocks \in Buffers, len \in BlockCounts, address \in Addrs :
        \E checks \in OverflowChecks(len) :
            Idle /\ Do(OpBuilt("write_blocks", <<blocks, len, address>>, checks))
WriteBlock ==
    \E block \in Buffers, address \in Addrs : Idle /\ Do(Op("write_block", <<block, address>>))
Result == Idle /\ Do(Op("result", <<>>))

\* CardHost::reset
Reset ==
    LET d == reset(Dev) IN
    /\ Idle
    /\ state' = d.state
    /\ sdmmc' = d.sdmmc
    /\ dma' = d.dma
    /\ ret' = [NoCall EXCEPT !.op = "reset", !.pre = state]
    /\ init_log' = EmptyLog
    /\ initialized' = FALSE
    /\ UNCHANGED <<rca, csd, cid, card_version, config, card, faults>>

\* Device::free: the device is consumed, the caller holds the peripherals
Free ==
    LET r == free(Dev) IN
    /\ Idle
    /\ state' = r.d.state
    /\ sdmmc' = r.d.sdmmc
    /\ dma' = r.d.dma
    /\ ret' = [NoCall EXCEPT !.op = "free", !.pre = state, !.res = r.res]
    /\ init_log' = EmptyLog
    /\ initialized' = FALSE
    /\ UNCHANGED <<rca, csd, cid, card_version, config, card, faults>>

\* Device::new on the peripherals that free handed back
New ==
    /\ ret.op = "free"
    /\ state' = St("Uninitialized")
    /\ rca' = W(0)
    /\ csd' = [tag |-> "V1", words |-> ZERO4]
    /\ cid' = ZERO4
    /\ card_version' = "V1SC"
    /\ ret' = NoCall
    /\ UNCHANGED <<config, sdmmc, dma, card, faults, init_log, initialized>>

\* a data path event that comes while the driver awaits no transfer is one of the
\* MaxFaults irregular events of a behaviour
Stray == IF state.tag \in {"Reading", "Writing"} THEN 0 ELSE 1

\* the controller begins the data phase it was armed for
HwDataStart ==
    /\ Idle
    /\ sdmmc.dpsm = "armed"
    /\ faults + Stray <= MaxFaults
    /\ faults' = faults + Stray
    /\ sdmmc' = [sdmmc EXCEPT !.dpsm = "active",
                              !.sta = @ \cup {IF sdmmc.dctrl.dtdir THEN "rxact" ELSE "txact"}]
    /\ UNCHANGED <<state, rca, csd, cid, card_version, config, dma, card, ret, init_log,
                   initialized>>

\* the controller ends the data phase
HwDataEnd ==
    /\ Idle
    /\ sdmmc.dpsm = "active"
    /\ faults + Stray <= MaxFaults
    /\ faults' = faults + Stray
    /\ \E s \in DataStatuses :
          sdmmc' = [sdmmc EXCEPT !.dpsm = "idle", !.sta = (@ \ {"rxact", "txact"}) \cup s]
    /\ UNCHANGED <<state, rca, csd, cid, card_version, config, dma, card, ret, init_log,
                   initialized>>

\* no data phase begins: the data timer of the armed data path runs out
HwDataTimeout ==
    /\ Idle
    /\ sdmmc.dpsm = "armed"
    /\ faults + Stray <= MaxFaults
    /\ faults' = faults + Stray
    /\ sdmmc' = [sdmmc EXCEPT !.dpsm = "idle", !.sta = @ \cup {"dtimeout"}]
    /\ UNCHANGED <<state, rca, csd, cid, card_version, config, dma, card, ret, init_log,
                   initialized>>

\* the caller has taken the result of the call; the record of the call is dropped
Return ==
    /\ ret.op \notin {"none", "free"}
    /\ ret' = NoCall
    /\ UNCHANGED <<state, rca, csd, cid, card_version, config, sdmmc, dma, card, faults, init_log,
                   initialized>>

Next ==
    \/ InitCard
    \/ CardId
    \/ CardSize
    \/ EraseCard
    \/ ReadSdStatus
    \/ Erase
    \/ ReadBlock
    \/ WriteBlocks
    \/ WriteBlock
    \/ Result
    \/ Reset
    \/ Free
    \/ New
    \/ HwDataStart
    \/ HwDataEnd
    \/ HwDataTimeout
    \/ Return

Spec == Init /\ [][Next]_vars

\* the card answered the command of log entry e with a status word that has
\* ready-for-data set, and the controller ended the command without an error
AnsweredReady(e) == e.st = {"cmdrend"} /\ e.index = e.cmd /\ e.resp = R1_READY

\* a result() call has returned in which the card, if it was asked, answered ready
Polled == ret.op = "result" /\ \A i \in 1..Len(ret.cmds) : AnsweredReady(ret.cmds[i])

\* The poll contract: every call returns to its caller; the controller ends a data
\* phase it has begun, clearing the activity flag (the controller runs between
\* the calls, so its fairness is strong); the caller calls result() again and
\* again, and the card does not stay busy or at fault for ever.
FairSpec ==
    /\ Spec
    /\ WF_vars(Return)
    /\ SF_vars(HwDataEnd)
    /\ []<>Polled

----------------------------------------------------------------------------
(* Properties.  A call is seen in the step that makes it: ret' describes the *)
(* call, the unprimed variables the device before it and the primed ones    *)
(* the device after it.                                                     *)

StartOps == {"read_block", "write_block", "write_blocks", "erase", "erase_card",
             "read_sd_status"}

\* the command of log entry e as <<opcode, application command, argument>>
Issued(e) == <<e.cmd, e.app, e.arg>>
IssuedSeq(cmds) == [i \in 1..Len(cmds) |-> Issued(cmds[i])]

\* C1: whenever init_card returns an error the session state afterwards is
\* Uninitialized, and an init_card call made in Uninitialized begins with
\* GO_IDLE_STATE (so the call after an error restarts the sequence).
C1_InitErrorLeavesUninitialized ==
    ret.op = "init_card" =>
        /\ ret.res.k = "Err" => state = St("Uninitialized")
        /\ ret.pre.tag = "Uninitialized" =>
                Issued(ret.cmds[1]) = <<GO_IDLE_STATE, FALSE, W(0)>>

\* C2: with a read, write or erase outstanding, every call that starts an
\* operation fails with Busy, issues no command, and leaves the session state,
\* the DMA channel registers and the controller registers as they were.
C2_BusyRejectsAndChangesNothing ==
    [][(ret'.op \in StartOps /\ state.tag \in OpTags) =>
            /\ ret'.res = Err("Busy")
            /\ ret'.cmds = <<>>
            /\ state' = state
            /\ dma' = dma
            /\ sdmmc' = sdmmc]_vars

\* every operation is refused in some operation state
C2_Witness ==
    /\ ret.op = "write_blocks"
    /\ ret.pre.tag = "Reading"
    /\ ret.res = Err("Busy")
    /\ dma.ccr4.en
    /\ sdmmc.dpsm = "active"

\* C3: the DMA channel is enabled only while the session state is Reading or
\* Writing.
C3_DmaEnabledOnlyDuringTransfer ==
    dma.ccr4.en => state.tag \in {"Reading", "Writing"}

\* the commands of an initialization that found the card not ready n times, with
\* the host capacity bit hcs, the card address a and the bus width argument width
RECURSIVE Repeat(_, _)
Repeat(seq, n) == IF n = 0 THEN <<>> ELSE seq \o Repeat(seq, n - 1)

InitSequence(n, hcs, a, width) ==
    <<  <<GO_IDLE_STATE, FALSE, W(0)>>, <<SEND_IF_COND, FALSE, W(426)>>  >>
    \o Repeat(<<  <<APP_COMMAND, FALSE, W(0)>>,
                  <<SD_SEND_OP_COND, TRUE, <<16 + (IF hcs THEN 16384 ELSE 0), 0>>>>  >>, n + 1)
    \o <<  <<ALL_SEND_CID, FALSE, W(0)>>, <<SEND_RELATIVE_ADDR, FALSE, W(0)>>,
           <<SEND_CSD, FALSE, a>>, <<SELECT_CARD, FALSE, a>>, <<APP_COMMAND, FALSE, a>>,
           <<SET_BUS_WIDTH, TRUE, W(width)>>  >>

IsPrefix(s, t) == Len(s) <= Len(t) /\ \A i \in 1..Len(s) : s[i] = t[i]

\* every command of the run ended the way the card in the slot regularly ends it
AnsweredRegularly(cmds) == \A i \in 1..Len(cmds) : cmds[i].st = RegularStatus(card, cmds[i])

\* the response to SEND_RELATIVE_ADDR in a finished run with n not-ready polls
RcaResponse(cmds, n) == cmds[2 + 2 * (n + 1) + 2].resp

\* C4: init_card called repeatedly from Uninitialized against a card that answers
\* every command regularly issues GO_IDLE_STATE(0), SEND_IF_COND(0x1aa), per poll
\* APP_COMMAND(0) and SD_SEND_OP_COND(0x00100000 | HCS << 30), then ALL_SEND_CID(0),
\* SEND_RELATIVE_ADDR(0), SEND_CSD(rca), SELECT_CARD(rca), APP_COMMAND(rca),
\* SET_BUS_WIDTH(0 or 2) and nothing else; when the run succeeds the state is
\* Ready, the CID and CSD are the card's, and rca is the high half of the
\* SEND_RELATIVE_ADDR response.
C4_InitCommandSequence ==
    (ret.op = "init_card" /\ ret.run.start = "Uninitialized" /\ AnsweredRegularly(ret.run.cmds)) =>
        LET n == ret.run.polls
            width == IF config.bus_width = "Bits1" THEN 0 ELSE 2
        IN  /\ ret.res.k = "WouldBlock" =>
                    IsPrefix(IssuedSeq(ret.run.cmds), InitSequence(n, card.v2, W(0), width))
            /\ ret.res.k = "Ok" =>
                    /\ IssuedSeq(ret.run.cmds) = InitSequence(n, card.v2, rca, width)
                    /\ state = St("Ready")
                    /\ cid = card.cid
                    /\ csd.words = card.csd
                    /\ rca = <<Hi(RcaResponse(ret.run.cmds, n)), 0>>
                    /\ rca # W(0)
            /\ faults = 0 => ret.res.k # "Err"

\* a run of two calls: the card was not ready at the first
C4_Witness ==
    /\ ret.op = "init_card"
    /\ ret.run.start = "Uninitialized"
    /\ AnsweredRegularly(ret.run.cmds)
    /\ ret.res.k = "Ok"
    /\ ret.run.polls = 1
    /\ config.bus_width = "Bits4"
    /\ Len(ret.run.cmds) = 12

\* C5: in init_card a command CRC failure of the SD_SEND_OP_COND exchange counts
\* as success and the call goes on with the response word (pending if the word
\* lacks the power-up bit, else ALL_SEND_CID with the card version the word tells);
\* a CRC failure of any other command ends the call with CRCFail; a timeout or a
\* missing response of the SD_SEND_OP_COND exchange ends the call with an error.
C5_CrcFailureOfAcmd41IsSuccess ==
    ret.op = "init_card" =>
        \A i \in 1..Len(ret.cmds) :
            LET e == ret.cmds[i]
                last == i = Len(ret.cmds)
            IN  /\ (IsAcmd41(e) /\ e.st = {"ccrcfail"}) =>
                        IF Shr(Hi(e.resp), 15) = 0 THEN last /\ ret.res = WouldBlock
                        ELSE /\ ~last
                             /\ Issued(ret.cmds[i + 1]) = <<ALL_SEND_CID, FALSE, W(0)>>
                             /\ card_version \in {"V1SC", IF Bit(Hi(e.resp), 14) # 0 THEN "V2HC"
                                                          ELSE "V2SC"}
                /\ (~IsAcmd41(e) /\ e.st = {"ccrcfail"}) => last /\ ret.res = Err("CRCFail")
                /\ (IsAcmd41(e) /\ e.st = {"ctimeout"}) =>
                        last /\ ret.res \in {Err("Timeout"), Err("NoCard")}
                /\ (IsAcmd41(e) /\ e.st = {"cmdsent"}) => last /\ ret.res = Err("UnknownResult")

\* a call that went on after the CRC failure of SD_SEND_OP_COND and was ended by
\* the CRC failure of a later command
C5_Witness ==
    /\ ret.op = "init_card"
    /\ ret.res = Err("CRCFail")
    /\ \E i \in 1..Len(ret.cmds) : IsAcmd41(ret.cmds[i]) /\ ret.cmds[i].st = {"ccrcfail"}
    /\ Issued(ret.cmds[Len(ret.cmds)]) = <<SET_BUS_WIDTH, TRUE, W(2)>>

\* the activity flag result() looks at is clear / set
TransferOver ==
    \/ state.tag = "Reading" /\ "rxact" \notin sdmmc.sta
    \/ state.tag = "Writing" /\ "txact" \notin sdmmc.sta
TransferActive ==
    \/ state.tag = "Reading" /\ "rxact" \in sdmmc.sta
    \/ state.tag = "Writing" /\ "txact" \in sdmmc.sta

\* the outcome the status flags stand for, in the stated order of priority
Outcome6(sta) ==
    CASE "dcrcfail" \in sta -> Err("CRCFail")
      [] "dcrcfail" \notin sta /\ "dtimeout" \in sta -> Err("Timeout")
      [] {"dcrcfail", "dtimeout"} \cap sta = {} /\ "rxoverr" \in sta -> Err("ReceiveOverrun")
      [] {"dcrcfail", "dtimeout", "rxoverr"} \cap sta = {} /\ "txunderr" \in sta ->
            Err("SendUnderrun")
      [] {"dcrcfail", "dtimeout", "rxoverr", "txunderr"} \cap sta = {}
            /\ ~({"dataend", "dbckend"} \subseteq sta) -> Err("UnknownResult")
      [] OTHER -> Ok(<<>>)

\* C6: result() polled in Reading or Writing with the receive-active (transmit-
\* active) flag clear disables the DMA channel, acknowledges the status flags,
\* sets the state to Ready whatever the outcome, and returns the first of: data
\* CRC fail, data timeout, receive overrun, send underrun, data end or block end
\* missing (UnknownResult), success.
C6_ResultResolvesTransfer ==
    [][(ret'.op = "result" /\ TransferOver) =>
            /\ ~dma'.ccr4.en
            /\ sdmmc'.sta \cap (CmdFlags \cup DataFlags) = {}
            /\ state' = St("Ready")
            /\ ret'.res = Outcome6(sdmmc.sta)]_vars

\* a read resolved with both the receive overrun and the send underrun flag up
C6_Witness ==
    /\ ret.op = "result"
    /\ ret.pre.tag = "Reading"
    /\ ret.res = Err("ReceiveOverrun")
    /\ state = St("Ready")
    /\ ~dma.ccr4.en

\* C7: after a successful read_block the state is Reading; a result() poll made
\* while the activity flag of the transfer is set returns pending and changes
\* nothing (state, DMA channel still enabled, status flags); the state goes from
\* Reading or Writing to Ready only by a poll that finds the flag clear.
C7_PendingPollChangesNothing ==
    [][/\ (ret'.op = "read_block" /\ ret'.res.k = "Ok") => state' = St("Reading")
       /\ (ret'.op = "result" /\ TransferActive) =>
            /\ ret'.res = WouldBlock
            /\ ret'.cmds = <<>>
            /\ state' = state
            /\ dma' = dma
            /\ dma'.ccr4.en
            /\ sdmmc' = sdmmc
       /\ (state.tag \in {"Reading", "Writing"} /\ state'.tag = "Ready") =>
            ret'.op = "result" /\ TransferOver]_vars

\* a pending poll of a read in progress
C7_Witness ==
    /\ ret.op = "result"
    /\ ret.pre.tag = "Reading"
    /\ ret.res = WouldBlock
    /\ state = St("Reading")
    /\ "rxact" \in sdmmc.sta
    /\ dma.ccr4.en

\* C8: result() returns Uninitialized in Uninitialized and Init1 and NoOperation
\* in Ready (before any operation and after a completion was reported), and
\* changes neither the session state nor the DMA channel nor the controller.
C8_ResultWithoutOperation ==
    [][(ret'.op = "result" /\ state.tag \in {"Uninitialized", "Init1", "Ready"}) =>
            /\ ret'.res = IF state.tag = "Ready" THEN Err("NoOperation")
                          ELSE Err("Uninitialized")
            /\ ret'.cmds = <<>>
            /\ state' = state
            /\ dma' = dma
            /\ sdmmc' = sdmmc]_vars

\* a poll after the completion of a transfer was reported (the channel still
\* holds the caller's buffer and is disabled)
C8_Witness ==
    /\ ret.op = "result"
    /\ ret.pre.tag = "Ready"
    /\ ret.res = Err("NoOperation")
    /\ dma.cmar4 \in Buffers
    /\ ~dma.ccr4.en

\* C9: in Erasing each result() poll issues one SEND_STATUS(rca); if the exchange
\* succeeds it returns pending and stays Erasing when the status lacks bit 8, and
\* returns success and goes to Ready when the status has it, whatever the DMA
\* channel and the data flags are; the DMA channel is not touched.
C9_ErasePollsCardStatus ==
    [][(ret'.op = "result" /\ state.tag = "Erasing") =>
            /\ IssuedSeq(ret'.cmds) = <<  <<SEND_STATUS, FALSE, rca>>  >>
            /\ faults' = faults => ret'.res.k # "Err"
            /\ ret'.res.k # "Err" =>
                    IF Bit(Lo(ret'.cmds[1].resp), 8) # 0
                    THEN ret'.res = Ok(<<>>) /\ state' = St("Ready")
                    ELSE ret'.res = WouldBlock /\ state' = state
            /\ dma' = dma]_vars

\* an erase reported complete while the DMA channel is (still) enabled
C9_Witness ==
    /\ ret.op = "result"
    /\ ret.pre.tag = "Erasing"
    /\ ret.res = Ok(<<>>)
    /\ state = St("Ready")
    /\ ret.cmds[1].resp = R1_READY
    /\ dma.ccr4.en

\* the state leaves an operation state / enters one
LeavesOperation == state.tag \in OpTags /\ state'.tag # state.tag
EntersOperation == state'.tag \in OpTags /\ state'.tag # state.tag

\* C10 as stated: apart from reset() (and free, which is no call of the trait),
\* the session leaves Reading, Writing and Erasing only to Ready and enters them
\* only from Ready.
C10_OperationEdgesAsStated ==
    [][ret'.op \notin {"reset", "free"} =>
            /\ LeavesOperation => state'.tag = "Ready"
            /\ EntersOperation => state.tag = "Ready"]_vars

\* C10: apart from reset() and from init_card called with an operation
\* outstanding, the session leaves Reading, Writing and Erasing only to Ready
\* and enters them only from Ready; init_card called with an operation
\* outstanding resets the host, issues no command, returns pending and leaves
\* the session Uninitialized.
C10_OperationEdges ==
    [][/\ (ret'.op \notin {"reset", "free", "init_card"}) =>
            /\ LeavesOperation => state'.tag = "Ready"
            /\ EntersOperation => state.tag = "Ready"
       /\ (ret'.op = "init_card" /\ state.tag \in OpTags) =>
            /\ state' = St("Uninitialized")
            /\ ret'.res = WouldBlock
            /\ ret'.cmds = <<>>
            /\ sdmmc' = SdmmcReset
            /\ dma' = DmaReset
       /\ (ret'.op = "init_card" /\ state.tag \notin OpTags) => state'.tag \notin OpTags]_vars

\* init_card called during an erase
C10_Witness ==
    /\ ret.op = "init_card"
    /\ ret.pre.tag = "Erasing"
    /\ ret.res = WouldBlock
    /\ state = St("Uninitialized")

\* the calls that return the cached identification and capacity
CacheOps == {"card_id", "card_size"}

\* the session caches what the card reported
CacheIsTheCards ==
    /\ cid = card.cid
    /\ csd.words = card.csd
    /\ rca = <<Hi(card.rca), 0>>

\* C11 as stated: card_id and card_size return a value exactly when an
\* initialization has completed and reset() was not called since.
C11_ValueIffInitializedAsStated ==
    ret.op \in CacheOps => (ret.res.k = "Ok" <=> initialized)

\* C11: card_id and card_size return a value exactly in Ready, Reading, Writing
\* and Erasing, which are the states in which the most recent initialization
\* run was completed and neither reset() nor a later init_card that reached its
\* second part came since; in these states the cached CID, relative card address
\* and capacity descriptor are the ones the card reported, card_id returns that
\* CID and card_size the capacity decoded from that descriptor, and no read,
\* write, erase or result call changes the cached values.
C11_CachedIdentity ==
    /\ [](/\ ret.op \in CacheOps => (ret.res.k = "Ok" <=> state.tag \in {"Ready"} \cup OpTags)
          /\ ret.op \in CacheOps /\ ret.res.k # "Ok" => ret.res = Err("Uninitialized")
          /\ state.tag \in {"Ready"} \cup OpTags => initialized /\ CacheIsTheCards
          /\ ret.op = "card_id" /\ ret.res.k = "Ok" => ret.res.v = card.cid
          /\ ret.op = "card_size" /\ ret.res.k = "Ok" =>
                ret.res.v = <<capacity([tag |-> IF card_version = "V2HC" THEN "V2" ELSE "V1",
                                        words |-> card.csd])>>)
    /\ [][ret'.op \in StartOps \cup {"result"} \cup CacheOps =>
                cid' = cid /\ rca' = rca /\ csd' = csd /\ card_version' = card_version]_vars

\* card_id returns the card's CID while a write is in progress
C11_Witness ==
    /\ ret.op = "card_id"
    /\ ret.pre.tag = "Writing"
    /\ ret.res = Ok(card.cid)
    /\ initialized

\* the calls said to start or poll without waiting
NonBlockingOps == {"init_card", "read_block", "write_block", "write_blocks", "erase",
                   "erase_card", "result"}

\* C12: no call of init_card, read_block, write_block(s), erase, erase_card or
\* result waits inside itself for a controller status flag to change: it never
\* polls a flag again after finding it set.
C12_NoWaitInsideACall ==
    ret.op \in NonBlockingOps => ret.spins = 0

\* C13: Device::free panics if it is called in Reading, Writing or Erasing; in
\* the other states it resets the peripherals and hands them back.
C13_FreePanicsDuringOperation ==
    ret.op = "free" =>
        IF ret.pre.tag \in OpTags THEN ret.res = Err("panic")
        ELSE /\ ret.res = Ok(<<>>)
             /\ state = St("Uninitialized")
             /\ sdmmc = SdmmcReset
             /\ dma = DmaReset

\* the fields of the capacity descriptor (c.words[1] holds bits 127..96):
\* standard capacity: C_SIZE is bits 73..62, C_SIZE_MULT bits 49..47;
\* high capacity: C_SIZE is bits 69..48
CSizeV1(c) == (Lo(c.words[2]) % 1024) * 4 + Shr(Hi(c.words[3]), 14)
CSizeMultV1(c) == (Hi(c.words[3]) % 4) * 2 + Shr(Lo(c.words[3]), 15)
CSizeV2(c) == (Lo(c.words[2]) % 64) * 65536 + Hi(c.words[3])

\* C14: the capacity card_size returns is (C_SIZE + 1) << (C_SIZE_MULT + 2) for
\* the standard-capacity layout and (C_SIZE + 1) << 10 for the high-capacity
\* layout with its full C_SIZE field; it is below 2^32 and not zero.
C14_CapacityDecodesCsd ==
    (ret.op = "card_size" /\ ret.res.k = "Ok") =>
        LET blocks == ret.res.v[1] IN
        /\ blocks > 0
        /\ IF csd.tag = "V1"
           THEN blocks = (CSizeV1(csd) + 1) * Pow2(CSizeMultV1(csd) + 2)
           ELSE blocks % 1024 = 0 /\ blocks \div 1024 = CSizeV2(csd) + 1

\* the SD_SEND_OP_COND exchange of log entry e got a response / one with the
\* power-up bit (bit 31)
Answered(e) == IsAcmd41(e) /\ e.st \cap {"ccrcfail", "cmdrend"} # {}
PoweredUp(e) == Answered(e) /\ Shr(Hi(e.resp), 15) = 1
Acmd41Arg(v2) == <<16 + (IF v2 THEN 16384 ELSE 0), 0>>

\* C15: an init_card call whose ACMD41 response has bit 31 clear returns pending
\* in Init1(v2), with v2 unchanged if the call began in Init1; a call made in
\* Init1 begins with APP_COMMAND(0) and SD_SEND_OP_COND (HCS = v2) and issues
\* neither GO_IDLE_STATE nor SEND_IF_COND; a call makes one SD_SEND_OP_COND
\* exchange at most; ALL_SEND_CID is issued only right after an exchange of the
\* same call whose response has bit 31 set.
C15_PendingWhileNotPoweredUp ==
    [][(ret'.op = "init_card" /\ state.tag \notin OpTags) =>
        LET cmds == ret'.cmds
            n == Len(cmds)
        IN  /\ \A i \in 1..n :
                 /\ (Answered(cmds[i]) /\ ~PoweredUp(cmds[i])) =>
                        /\ i = n
                        /\ ret'.res = WouldBlock
                        /\ state' = Init1(Bit(Hi(cmds[i].arg), 14) = 1)
                        /\ state.tag = "Init1" => state' = state
                 /\ Issued(cmds[i]) = <<ALL_SEND_CID, FALSE, W(0)>> =>
                        i > 1 /\ PoweredUp(cmds[i - 1])
                 /\ PoweredUp(cmds[i]) => i < n /\ Issued(cmds[i + 1]) = <<ALL_SEND_CID, FALSE, W(0)>>
            /\ Cardinality({i \in 1..n : IsAcmd41(cmds[i])}) <= 1
            /\ ret'.res = WouldBlock => n > 0 /\ Answered(cmds[n]) /\ ~PoweredUp(cmds[n])
            /\ state.tag = "Init1" =>
                 /\ Issued(cmds[1]) = <<APP_COMMAND, FALSE, W(0)>>
                 /\ n > 1 => Issued(cmds[2]) = <<SD_SEND_OP_COND, TRUE, Acmd41Arg(state.v2)>>
                 /\ \A i \in 1..n : cmds[i].app \/ cmds[i].cmd \notin {GO_IDLE_STATE, SEND_IF_COND}]_vars

\* the call after a pending one finds a version-1 card powered up and completes
C15_Witness ==
    /\ ret.op = "init_card"
    /\ ret.pre = Init1(FALSE)
    /\ ret.run.polls = 1
    /\ ret.res.k = "Ok"
    /\ Len(ret.cmds) = 8

\* what an initialization run did after its SEND_IF_COND took the path of a
\* version-2 card (v2) or of a version-1 card: every SD_SEND_OP_COND of the run
\* carries HCS = v2, and once one is answered with the power-up bit the card
\* version is the one the path and bit 30 of that answer tell
TookPath(cmds, v2) ==
    /\ Len(cmds) > 2
    /\ \A i \in 3..Len(cmds) :
         /\ IsAcmd41(cmds[i]) => cmds[i].arg = Acmd41Arg(v2)
         /\ PoweredUp(cmds[i]) =>
                card_version = IF ~v2 THEN "V1SC"
                               ELSE IF Bit(Hi(cmds[i].resp), 14) = 1 THEN "V2HC"
                               ELSE "V2SC"

\* C16: in an initialization run the outcome of SEND_IF_COND(0x1aa) selects the
\* path: a command timeout is no error and the run goes on as for a version-1
\* card (HCS 0, V1SC); a response word other than 0x1aa ends the call with
\* OperatingConditionsNotSupported and no ACMD41; the response 0x1aa makes the
\* run go on as for a version-2 card (HCS 1), V2HC iff bit 30 of the ready
\* ACMD41 response is set, else V2SC.
C16_IfCondSelectsPath ==
    (ret.op = "init_card" /\ ret.run.start \in {"Uninitialized", "Ready"}
            /\ Len(ret.run.cmds) > 1) =>
        LET cmds == ret.run.cmds
            e == cmds[2]
        IN  /\ Issued(e) = <<SEND_IF_COND, FALSE, W(426)>>
            /\ e.st = {"ctimeout"} => TookPath(cmds, FALSE)
            /\ (e.st = {"cmdrend"} /\ e.index = SEND_IF_COND /\ e.resp # W(426)) =>
                    /\ Len(cmds) = 2
                    /\ ret.res = Err("OperatingConditionsNotSupported")
            /\ (e.st = {"cmdrend"} /\ e.index = SEND_IF_COND /\ e.resp = W(426)) =>
                    TookPath(cmds, TRUE)

\* a version-2 standard-capacity card initialized after one pending call
C16_Witness ==
    /\ ret.op = "init_card"
    /\ ret.run.start = "Uninitialized"
    /\ ret.run.polls = 1
    /\ ret.res.k = "Ok"
    /\ ret.run.cmds[2].resp = W(426)
    /\ card_version = "V2SC"

\* C17: a short-response command, plain or application command, whose response
\* carries a command index other than the opcode issued ends the call with
\* UnexpectedResponse: no further command is issued and the call does not
\* succeed.  (SD_SEND_OP_COND is left out: its response carries no index.)
C17_EchoedIndexIsChecked ==
    \A i \in 1..Len(ret.cmds) :
        LET e == ret.cmds[i] IN
        (e.waitresp = 1 /\ ~IsAcmd41(e) /\ e.st = {"cmdrend"} /\ e.index # e.cmd) =>
            i = Len(ret.cmds) /\ ret.res = Err("UnexpectedResponse")

\* C18: no command is written to the command register while the command-active
\* flag of an earlier command is set: every command of a call has ended with a
\* status before the next one is written and before the call returns, and the
\* flag is clear between calls.
C18_CommandsDoNotOverlap ==
    /\ ~ret.overlap
    /\ "cmdact" \notin sdmmc.sta
    /\ \A i \in 1..Len(ret.cmds) : ret.cmds[i].st \in CmdStatuses

\* three commands in a row to a card that keeps the command path active for a
\* poll each time
C18_Witness ==
    /\ ret.op = "erase_card"
    /\ ret.res.k = "Ok"
    /\ Len(ret.cmds) = 3
    /\ ret.spins = 3
    /\ ~ret.overlap

\* the data control register armed for a receive / a transmit of 512-byte blocks
ArmedForReceive == [dten |-> TRUE, dtdir |-> TRUE, dmaen |-> TRUE, dblocksize |-> 9]
ArmedForTransmit == [dten |-> TRUE, dtdir |-> FALSE, dmaen |-> TRUE, dblocksize |-> 9]

\* the buffer, the number of blocks and the block address of a write call
WriteArgs(call) ==
    IF call.op = "write_block" THEN <<call.args[1], 1, call.args[2]>> ELSE call.args

\* C19: read_block has the DMA channel enabled on the block (peripheral to
\* memory) and the data control register armed for receive when it issues
\* READ_BLOCK; write_blocks issues SET_BLOCK_COUNT(number of blocks) with the DMA
\* channel untouched, issues the write command with the channel enabled on the
\* blocks (memory to peripheral) and the data control register still untouched,
\* and arms the register for transmit only if the write command succeeds.
C19_ArmingOrder ==
    [][/\ (ret'.op = "read_block" /\ state.tag = "Ready") =>
            LET e == ret'.cmds[1] IN
            /\ Len(ret'.cmds) = 1
            /\ Issued(e) = <<READ_BLOCK, FALSE, W(ret'.args[2])>>
            /\ e.dma.ccr4.en /\ ~e.dma.ccr4.dir /\ e.dma.cmar4 = ret'.args[1]
            /\ e.dctrl = ArmedForReceive
       /\ (ret'.op \in {"write_blocks", "write_block"} /\ state.tag = "Ready") =>
            LET cmds == ret'.cmds
                a == WriteArgs(ret')
            IN  /\ Issued(cmds[1]) = <<SET_BLOCK_COUNT, FALSE, W(a[2])>>
                /\ cmds[1].dma = dma /\ cmds[1].dctrl = sdmmc.dctrl
                /\ Len(cmds) > 1 =>
                     /\ Len(cmds) = 2 /\ cmds[1].st = {"cmdrend"}
                     /\ Issued(cmds[2]) = <<WRITE_MULTIPLE_BLOCK, FALSE, W(a[3])>>
                     /\ cmds[2].dma.ccr4.en /\ cmds[2].dma.ccr4.dir /\ cmds[2].dma.cmar4 = a[1]
                     /\ cmds[2].dctrl = sdmmc.dctrl
                /\ IF ret'.res.k = "Ok"
                   THEN Len(cmds) = 2 /\ sdmmc'.dctrl = ArmedForTransmit /\ state' = St("Writing")
                   ELSE sdmmc'.dctrl = sdmmc.dctrl /\ state' = state]_vars

\* a write started after a read: the register was still set for receive when the
\* write command was issued
C19_Witness ==
    /\ ret.op = "write_blocks"
    /\ ret.res.k = "Ok"
    /\ state = St("Writing")
    /\ ret.cmds[2].dctrl = ArmedForReceive
    /\ sdmmc.dctrl = ArmedForTransmit
    /\ ~ret.cmds[1].dma.ccr4.en

\* a byte length the DMA set-up accepts
ValidLength(size) == IsPowerOfTwo(size) /\ size % 4 = 0 /\ size < 262144

\* C20: whenever the DMA channel is enabled the data length is a power of two, a
\* multiple of 4 and below 256 KiB; a write of a number of blocks whose length
\* is not so ends in an assertion failure with the DMA channel and the data
\* length register untouched.
C20_DmaLengthIsValid ==
    /\ dma.ccr4.en => ValidLength(sdmmc.dlen)
    /\ (ret.op = "write_blocks" /\ ret.pre.tag = "Ready"
            /\ ~ValidLength(ret.args[2] * BLOCK_SIZE)) => ret.res = Err("panic")

\* C21: every command init_card issues (from Uninitialized, from Init1, from
\* Ready) is issued with the clock divider programmed for 0x80 (CLKDIV = 0x7e)
\* and the divider bypass off.
C21_InitClockIsConservative ==
    ret.op = "init_card" =>
        \A i \in 1..Len(ret.cmds) :
            /\ ret.cmds[i].clkcr.clkdiv = INIT_CLOCK_DIVIDER - 2
            /\ ~ret.cmds[i].clkcr.bypass

\* C22: a result() call made in Reading, Writing or Erasing that returns
\* anything but pending, success or error, leaves the session in Ready.
C22_NonPendingResultLeavesReady ==
    [][(ret'.op = "result" /\ state.tag \in OpTags /\ ret'.res # WouldBlock)
           => state' = St("Ready")]_vars

\* C23: whenever a read or a write has enabled the DMA channel, the word count
\* in the count register is the data length divided by 4: 128 for each block of
\* a write, size / 4 for a read.
TransferOps == {"read_block", "read_sd_status", "write_block", "write_blocks"}
C23_WordCountIsLengthOverFour ==
    (ret.op \in TransferOps /\ dma.ccr4.en) => dma.cndtr4 * 4 = sdmmc.dlen

\* an idle caller makes the call op
Calls(op) == ret.op = "none" /\ ret'.op = op

\* C24: init_card called in Reading, Writing or Erasing puts the DMA channel and
\* the controller in their reset state, sets the state to Uninitialized, issues
\* no command and returns pending; the session then stays Uninitialized until
\* the next init_card call, and that call begins with GO_IDLE_STATE.
C24_InitCardAbortsOperation ==
    [][/\ (Calls("init_card") /\ state.tag \in OpTags) =>
            /\ sdmmc' = SdmmcReset
            /\ dma' = DmaReset
            /\ state' = St("Uninitialized")
            /\ ret'.cmds = <<>>
            /\ ret'.res = WouldBlock
       /\ (state.tag = "Uninitialized" /\ ~Calls("init_card")) => state'.tag = "Uninitialized"
       /\ (Calls("init_card") /\ state.tag = "Uninitialized") =>
            /\ ret'.cmds # <<>>
            /\ ret'.cmds[1].cmd = GO_IDLE_STATE
            /\ ~ret'.cmds[1].app]_vars

\* init_card called while a write is outstanding
C24_Witness ==
    /\ ret.op = "init_card"
    /\ ret.pre.tag = "Writing"
    /\ ret.res = WouldBlock
    /\ ret.cmds = <<>>
    /\ state = St("Uninitialized")
    /\ sdmmc = SdmmcReset
    /\ dma = DmaReset

\* a read, a write or an erase was started and has not been resolved
Outstanding == state.tag \in OpTags

\* a result() call returned something other than pending and the session is Ready
Resolved == ret.op = "result" /\ ret.res # WouldBlock /\ state = St("Ready")

\* the caller gave the operation up instead of polling it to its end
GaveUp == ret.op \in {"init_card", "reset", "free"} /\ ret.pre.tag \in OpTags

\* C25: under the poll contract, an operation that was started is resolved: unless
\* the caller gives it up, a result() call eventually returns a non-pending
\* outcome with the session in Ready, where check_ready lets the next operation
\* start.
C25_PollingResolves == Outstanding ~> (Resolved \/ GaveUp)

\* a write polled to its end
C25_Witness ==
    /\ ret.op = "result"
    /\ ret.pre.tag = "Writing"
    /\ ret.res = Ok(<<>>)
    /\ state = St("Ready")
    /\ "txact" \notin sdmmc.sta
    /\ ~dma.ccr4.en

====
